---- MODULE Spec2Model ----
(***************************************************************************)
(* Dopamine electrochemistry scripts as a state machine.                   *)
(*                                                                         *)
(*   script = "oxidacion" : 3_oxidacion_dapomina/oxidacion_dopamina.py     *)
(*   script = "fscv"      : 2_butler_volmer_equation/                      *)
(*                          buttler_butter_fast_scan_cyclic.py             *)
(*                                                                         *)
(* Both scripts run top to bottom; pc is the position in the script and i  *)
(* the index of the loop being executed.  Arrays are functions over        *)
(* 0..n-1, like the numpy arrays they model.                               *)
(*                                                                         *)
(* Number representation (exact, no rounding in the kinetics):             *)
(*   - times (T, dt, tiempos_picos, time_total, t) are integers in ticks;  *)
(*   - pH and oxygen are kept in tenths (pH 7.2 = 72, O2 0.20 = 2);        *)
(*   - concentrations are integers in units of 1/Scale(n_pas), with        *)
(*     Scale(n) = 10 * 100^n, so that every Euler step is exact;           *)
(*   - k_base is per tick, k_decomp in hundredths per tick;                *)
(*   - potentials are in millivolts; a waveform sample E[i] is kept as the *)
(*     numerator of a fraction with denominator EDen = |time_total|.       *)
(***************************************************************************)
EXTENDS Integers, Sequences, FiniteSets

VARIABLES
    script,             \* which script this run executes
    pc,                 \* position in the script
    err,                \* the exception that ended the run ("" : none)
    i,                  \* index of the running loop
    \* ---- oxidacion_dopamina.py
    T, dt, n_pas,
    k_base, k_decomp,
    dopamina, peroxido_hidrogeno, quinona,
    ph, oxigeno,
    n_picos, tiempos_picos, magnitudes_picos, indices_picos,
    aplicados,          \* history: positions j whose magnitude line 71 added
    \* ---- buttler_butter_fast_scan_cyclic.py (dt is shared)
    E_vertex, time_total, t, num_points, E, j

vars == << script, pc, err, i, T, dt, n_pas, k_base, k_decomp,
           dopamina, peroxido_hidrogeno, quinona, ph, oxigeno,
           n_picos, tiempos_picos, magnitudes_picos, indices_picos, aplicados,
           E_vertex, time_total, t, num_points, E, j >>

oxVars == << T, n_pas, k_base, k_decomp,
             dopamina, peroxido_hidrogeno, quinona, ph, oxigeno,
             n_picos, tiempos_picos, magnitudes_picos, indices_picos, aplicados >>

fscvVars == << E_vertex, time_total, t, num_points, E, j >>

-----------------------------------------------------------------------------
(* Bounds of the exploration *)

MaxT == 6            \* largest total time T explored, in ticks
NPicos == 2          \* number of stress events explored (n_picos)

(* Program constants, in the units above *)

PhInicial == 72      \* ph[0] = 7.2
PhMedia == 72        \* mean 7.2 of the pH process
PhMin == 65          \* np.clip lower bound 6.5
PhMax == 78          \* np.clip upper bound 7.8
theta == 5           \* 0.05 per tick, in hundredths
sigma_ph == 10       \* 0.1, in hundredths of a pH unit
O2Inicial == 2       \* oxigeno[0] = 0.20
O2Media == 2         \* mean 0.20 of the oxygen process
O2Min == 1           \* np.clip lower bound 0.1
O2Max == 3           \* np.clip upper bound 0.3
theta_o2 == 5        \* 0.05 per tick, in hundredths
sigma_o2 == 5        \* 0.05, in hundredths
PhRef == 72          \* the 7.2 of factor_ph
MagMin == 1          \* magnitudes are uniform in [0.1, 0.5]
MagMax == 5
E_start == -400      \* -0.4 V
E0 == 200            \* 0.2 V

(* Inputs drawn from small sets *)

TSet == {-1, 0, MaxT}
DtSet == {-2, 0, 2}
KBaseSet == {0, 1}                    \* k_base, per tick
KDecompSet == {0, 10, 60}             \* k_decomp, hundredths per tick
NPicosSet == {0, NPicos}
ZSet == {-4, 4}                       \* standard-normal draws explored
MagSet == {MagMin, MagMax}

-----------------------------------------------------------------------------
(* Arithmetic helpers *)

Abs(x) == IF x < 0 THEN -x ELSE x

Sgn(x) == IF x < 0 THEN -1 ELSE IF x = 0 THEN 0 ELSE 1

\* Python's int(a / b) for b # 0: the quotient truncated toward zero.
IntTrunc(a, b) == Sgn(a) * Sgn(b) * (Abs(a) \div Abs(b))

\* a / b rounded to the nearest integer (b > 0): the grid resolution of the
\* noise trajectories.
Redondear(a, b) == (2 * a + b) \div (2 * b)

\* np.sqrt(d) in tenths, d > 0.
Sqrt10(d) == CHOOSE r \in 0..(10 * d) : r * r <= 100 * d /\ 100 * d < (r + 1) * (r + 1)

RECURSIVE Pow(_, _)
Pow(b, n) == IF n <= 0 THEN 1 ELSE b * Pow(b, n - 1)

\* The unit of the concentrations is 1/Scale(n_pas).
Scale(n) == 10 * Pow(100, n)

\* np.zeros(n)
Zeros(n) == [k \in 0..(n - 1) |-> 0]

Length(a) == Cardinality(DOMAIN a)

\* np.clip(a, lo, hi): every element, index 0 included.
\* A clip that forgets the lower bound.
ClipSoloSuperior(x, lo, hi) == IF x > hi THEN hi ELSE x

ClipValor(x, lo, hi) == IF x < lo THEN lo ELSE IF x > hi THEN hi ELSE x

Clip(a, lo, hi) == [k \in DOMAIN a |-> ClipValor(a[k], lo, hi)]

\* One step of the mean-reverting recurrence of lines 30 and 39:
\* x + theta*(mean - x)*dt + sigma*sqrt(dt)*Z, on the grid of tenths
\* (theta and sigma are in hundredths, Sqrt10 in tenths).
OUPaso(x, media, th, sigma, z) ==
    x + Redondear(th * (media - x) * dt, 100)
      + Redondear(sigma * Sqrt10(dt) * z, 100)

\* factor_ph: 10^(pH - 7.2) in tenths (rounded to one decimal), for
\* pH - 7.2 from -0.7 to 0.6 in steps of 0.1.
Pow10Tabla == << 2, 3, 3, 4, 5, 6, 8, 10, 13, 16, 20, 25, 32, 40 >>

factor_ph(pH) == Pow10Tabla[(pH - PhRef) + 8]

\* np.sort of a sequence of drawn times (insertion sort).
RECURSIVE Insertar(_, _)
Insertar(s, x) ==
    IF s = << >> THEN << x >>
    ELSE IF x <= Head(s) THEN << x >> \o s
    ELSE << Head(s) >> \o Insertar(Tail(s), x)

\* np.sort left out: the times stay in the order drawn.
SortSinOrdenar(s) == s

RECURSIVE Sort(_)
Sort(s) == IF s = << >> THEN << >> ELSE Insertar(Sort(Tail(s)), Head(s))

\* np.random.uniform(0, T, n) on the grid of ticks.
TimeGrid(total) == IF total >= 0 THEN 0..total ELSE total..0

\* i in indices_picos
EnIndices(k) == \E p \in 1..Len(indices_picos) : indices_picos[p] = k

\* indices_picos.index(i): the first position holding i
IndexOf(k) == CHOOSE p \in 1..Len(indices_picos) :
                  /\ indices_picos[p] = k
                  /\ \A q \in 1..(p - 1) : indices_picos[q] # k

-----------------------------------------------------------------------------
(* oxidacion_dopamina.py *)

InitOx ==
    /\ script = "oxidacion"
    /\ pc = "setup"
    /\ err = ""
    /\ i = 0
    /\ T \in TSet
    /\ dt \in DtSet
    /\ k_base \in KBaseSet
    /\ k_decomp \in KDecompSet
    /\ n_picos \in NPicosSet
    /\ n_pas = 0
    /\ dopamina = << >> /\ peroxido_hidrogeno = << >> /\ quinona = << >>
    /\ ph = << >> /\ oxigeno = << >>
    /\ tiempos_picos = << >> /\ magnitudes_picos = << >> /\ indices_picos = << >>
    /\ aplicados = {}
    /\ E_vertex = 0 /\ time_total = 0 /\ t = << >> /\ num_points = 0
    /\ E = << >> /\ j = << >>

\* An uncaught exception ends the script where it is raised.
Falla(e) ==
    /\ pc' = "error"
    /\ err' = e
    /\ UNCHANGED << script, i, dt, oxVars, fscvVars >>

\* Lines 12-28: n_pas, the concentration arrays and their initial values, the
\* pH array.  int(T/dt) raises ZeroDivisionError for dt = 0, np.zeros raises
\* ValueError for a negative length, and dopamina[0] = 1.0 raises IndexError
\* on an empty array.
Setup ==
    /\ script = "oxidacion" /\ pc = "setup"
    /\ IF dt = 0 THEN Falla("ZeroDivisionError")
       ELSE LET n == IntTrunc(T, dt) IN
            IF n + 1 < 0 THEN Falla("ValueError")
            ELSE IF n + 1 = 0 THEN Falla("IndexError")
            ELSE /\ n_pas' = n
                 /\ dopamina' = [Zeros(n + 1) EXCEPT ![0] = Scale(n)]
                 /\ peroxido_hidrogeno' = [Zeros(n + 1) EXCEPT ![0] = Scale(n) \div 10]
                 /\ quinona' = Zeros(n + 1)
                 /\ ph' = [Zeros(n + 1) EXCEPT ![0] = PhInicial]
                 /\ pc' = "ph"
                 /\ i' = 0
                 /\ UNCHANGED << script, err, T, dt, k_base, k_decomp, oxigeno,
                                 n_picos, tiempos_picos, magnitudes_picos,
                                 indices_picos, aplicados, fscvVars >>

\* Lines 29-30: one iteration of the pH loop, with a fresh normal draw.
PhPaso ==
    /\ script = "oxidacion" /\ pc = "ph" /\ i < n_pas
    /\ \E z \in ZSet :
           ph' = [ph EXCEPT ![i + 1] = OUPaso(ph[i], PhMedia, theta, sigma_ph, z)]
    /\ i' = i + 1
    /\ UNCHANGED << script, pc, err, T, dt, n_pas, k_base, k_decomp,
                    dopamina, peroxido_hidrogeno, quinona, oxigeno,
                    n_picos, tiempos_picos, magnitudes_picos, indices_picos,
                    aplicados, fscvVars >>

\* Lines 31-37: clip the whole pH array, then create the oxygen array.
PhClip ==
    /\ script = "oxidacion" /\ pc = "ph" /\ i = n_pas
    /\ ph' = Clip(ph, PhMin, PhMax)
    /\ oxigeno' = [Zeros(n_pas + 1) EXCEPT ![0] = O2Inicial]
    /\ pc' = "o2"
    /\ i' = 0
    /\ UNCHANGED << script, err, T, dt, n_pas, k_base, k_decomp,
                    dopamina, peroxido_hidrogeno, quinona,
                    n_picos, tiempos_picos, magnitudes_picos, indices_picos,
                    aplicados, fscvVars >>

\* Lines 38-39: one iteration of the oxygen loop.
O2Paso ==
    /\ script = "oxidacion" /\ pc = "o2" /\ i < n_pas
    /\ \E z \in ZSet :
           oxigeno' = [oxigeno EXCEPT ![i + 1] = OUPaso(oxigeno[i], O2Media, theta_o2, sigma_o2, z)]
    /\ i' = i + 1
    /\ UNCHANGED << script, pc, err, T, dt, n_pas, k_base, k_decomp,
                    dopamina, peroxido_hidrogeno, quinona, ph,
                    n_picos, tiempos_picos, magnitudes_picos, indices_picos,
                    aplicados, fscvVars >>

\* Line 40: clip the whole oxygen array.
O2Clip ==
    /\ script = "oxidacion" /\ pc = "o2" /\ i = n_pas
    /\ oxigeno' = Clip(oxigeno, O2Min, O2Max)
    /\ pc' = "picos"
    /\ i' = 0
    /\ UNCHANGED << script, err, T, dt, n_pas, k_base, k_decomp,
                    dopamina, peroxido_hidrogeno, quinona, ph,
                    n_picos, tiempos_picos, magnitudes_picos, indices_picos,
                    aplicados, fscvVars >>

\* Lines 51-54: draw and sort the event times, draw the magnitudes (in
\* tenths, kept in concentration units), floor-map the times to indices.
\* np.random.uniform may return the upper limit through rounding, so T
\* itself is among the times drawn.
IndicesDe(ts) == [p \in 1..Len(ts) |-> IntTrunc(ts[p], dt)]

Picos ==
    /\ script = "oxidacion" /\ pc = "picos"
    /\ \E ts \in [1..n_picos -> TimeGrid(T)], ms \in [1..n_picos -> MagSet] :
           /\ tiempos_picos' = Sort(ts)
           /\ magnitudes_picos' = [p \in 1..n_picos |-> ms[p] * (Scale(n_pas) \div 10)]
           /\ indices_picos' = IndicesDe(Sort(ts))
    /\ pc' = "integrar"
    /\ i' = 0
    /\ UNCHANGED << script, err, T, dt, n_pas, k_base, k_decomp,
                    dopamina, peroxido_hidrogeno, quinona, ph, oxigeno,
                    n_picos, aplicados, fscvVars >>

\* Line 59: v = k_base * dopamina[i] * oxigeno[i] * factor_ph(ph[i]).
\* oxigeno and factor_ph are in tenths; dopamina[k] is a multiple of 100 for
\* k < n_pas, so the quotient is exact.
v(k) == k_base * (dopamina[k] \div 100) * oxigeno[k] * factor_ph(ph[k])

\* Sign slips in the rate equations.
d_dop_positivo(k) == v(k)

d_quin_negativo(k) == -v(k)

d_dop(k) == -v(k)                                                  \* line 61

\* Line 62; k_decomp is in hundredths, peroxido_hidrogeno[k] a multiple of 100.
d_h2o2(k) == v(k) - k_decomp * (peroxido_hidrogeno[k] \div 100)

d_quin(k) == v(k)                                                  \* line 63

\* Lines 69-71: what the step adds to peroxido_hidrogeno[i+1].
Pico(k) == IF EnIndices(k) THEN magnitudes_picos[IndexOf(k)] ELSE 0

\* Lines 57-71: one iteration of the Euler loop.
Integrar ==
    /\ script = "oxidacion" /\ pc = "integrar" /\ i < n_pas
    /\ dopamina' = [dopamina EXCEPT ![i + 1] = dopamina[i] + d_dop(i) * dt]
    /\ peroxido_hidrogeno' =
           [peroxido_hidrogeno EXCEPT
               ![i + 1] = peroxido_hidrogeno[i] + d_h2o2(i) * dt + Pico(i)]
    /\ quinona' = [quinona EXCEPT ![i + 1] = quinona[i] + d_quin(i) * dt]
    /\ aplicados' = IF EnIndices(i) THEN aplicados \cup {IndexOf(i)} ELSE aplicados
    /\ i' = i + 1
    /\ UNCHANGED << script, pc, err, T, dt, n_pas, k_base, k_decomp, ph, oxigeno,
                    n_picos, tiempos_picos, magnitudes_picos, indices_picos,
                    fscvVars >>

\* Lines 73-82: the loop is over, the arrays go to the plot.
Terminar ==
    /\ script = "oxidacion" /\ pc = "integrar" /\ i = n_pas
    /\ pc' = "done"
    /\ UNCHANGED << script, err, i, dt, oxVars, fscvVars >>

NextOx == Setup \/ PhPaso \/ PhClip \/ O2Paso \/ O2Clip \/ Picos \/ Integrar \/ Terminar

-----------------------------------------------------------------------------
(* buttler_butter_fast_scan_cyclic.py *)

EVertexSet == {0, 1300}                \* 1.3 V is the script's E_vertex
TimeTotalSet == {-4, 0, 4, 6, 1000}    \* 1000 ticks of 1e-5 s: time_total = 0.01
DtFSet == {-1, 0, 1, 2}                \* 1 tick: dt = 1e-5

InitFSCV ==
    /\ script = "fscv"
    /\ pc = "setup"
    /\ err = ""
    /\ i = 0
    /\ E_vertex \in EVertexSet
    /\ time_total \in TimeTotalSet
    /\ dt \in DtFSet
    /\ t = << >> /\ num_points = 0 /\ E = << >> /\ j = << >>
    /\ T = 0 /\ n_pas = 0 /\ k_base = 0 /\ k_decomp = 0 /\ n_picos = 0
    /\ dopamina = << >> /\ peroxido_hidrogeno = << >> /\ quinona = << >>
    /\ ph = << >> /\ oxigeno = << >>
    /\ tiempos_picos = << >> /\ magnitudes_picos = << >> /\ indices_picos = << >>
    /\ aplicados = {}

\* The smallest integer >= a / b, b # 0.
CeilDiv(a, b) == IF b > 0 THEN -((-a) \div b) ELSE -(a \div (-b))

\* A closed grid: one sample more, at stop itself.
ArangeLenCerrado(stop, step) == IntTrunc(stop, step) + 1

\* len(np.arange(0, stop, step)): ceil(stop / step), or 0 when that is negative.
ArangeLen(stop, step) ==
    IF CeilDiv(stop, step) > 0 THEN CeilDiv(stop, step) ELSE 0

\* np.arange(0, stop, step): the half-open grid 0, step, 2*step, ... < stop.
Arange(stop, step) == [k \in 0..(ArangeLen(stop, step) - 1) |-> k * step]

\* The denominator of the waveform samples.
EDen == Abs(time_total)

\* Lines 26-32: the time vector, num_points, the waveform array.  np.arange
\* raises ZeroDivisionError for a zero step.
SetupFSCV ==
    /\ script = "fscv" /\ pc = "setup"
    /\ IF dt = 0 THEN Falla("ZeroDivisionError")
       ELSE /\ t' = Arange(time_total, dt)
            /\ num_points' = ArangeLen(time_total, dt)
            /\ E' = Zeros(ArangeLen(time_total, dt))
            /\ pc' = "barrido"
            /\ i' = 0
            /\ UNCHANGED << script, err, dt, oxVars, E_vertex, time_total, j >>

\* Line 35 (ramp up) and line 37 (ramp down), as numerators over EDen, with
\* half_time = time_total / 2.
RampaSubida(tk) ==
    E_start * EDen + (E_vertex - E_start) * 2 * tk * Sgn(time_total)

\* The ramp down measured from 0 instead of from half_time.
RampaBajadaDesdeCero(tk) ==
    E_vertex * EDen - (E_vertex - E_start) * 2 * tk * Sgn(time_total)

RampaBajada(tk) ==
    E_vertex * EDen - (E_vertex - E_start) * (2 * tk - time_total) * Sgn(time_total)

\* The turning point compared with time_total instead of half_time.
AntesDeFinal(tk) == tk < time_total

\* Line 34: t[i] < half_time.
AntesDeMitad(tk) == 2 * tk < time_total

Potencial(tk) == IF AntesDeMitad(tk) THEN RampaSubida(tk) ELSE RampaBajada(tk)

\* Lines 33-37: one iteration of the sweep loop.
Barrido ==
    /\ script = "fscv" /\ pc = "barrido" /\ i < num_points
    /\ E' = [E EXCEPT ![i] = Potencial(t[i])]
    /\ i' = i + 1
    /\ UNCHANGED << script, pc, err, dt, oxVars, E_vertex, time_total, t,
                    num_points, j >>

\* Line 54: j = np.zeros(num_points), once the sweep loop is over.
FinBarrido ==
    /\ script = "fscv" /\ pc = "barrido" /\ i = num_points
    /\ j' = Zeros(num_points)
    /\ pc' = "corriente"
    /\ i' = 0
    /\ UNCHANGED << script, err, dt, oxVars, E_vertex, time_total, t,
                    num_points, E >>

\* Lines 40-51: butler_volmer(E_applied, t_idx).  The exponentials are not
\* evaluated; the sample records what decides them: the overpotential eta
\* (numerator over EDen), the time of the diffusion term, the gate
\* (E_applied > 0) of the adsorption term, and whether the division by
\* E_vertex made the sample NaN (numpy divides by zero without raising).
butler_volmer(E_applied, t_idx) ==
    [ eta    |-> E_applied - E0 * EDen,
      tiempo |-> t[t_idx],
      ads    |-> E_applied > 0,
      nan    |-> E_vertex = 0 ]

\* Lines 55-56: one iteration of the current loop.
Corriente ==
    /\ script = "fscv" /\ pc = "corriente" /\ i < num_points
    /\ j' = [j EXCEPT ![i] = butler_volmer(E[i], i)]
    /\ i' = i + 1
    /\ UNCHANGED << script, pc, err, dt, oxVars, E_vertex, time_total, t,
                    num_points, E >>

\* Lines 57-62: the noise level is np.max(np.abs(current)), which raises
\* ValueError on an empty trace; otherwise the trace is complete.
Ruido ==
    /\ script = "fscv" /\ pc = "corriente" /\ i = num_points
    /\ IF num_points = 0 THEN Falla("ValueError")
       ELSE /\ pc' = "done"
            /\ UNCHANGED << script, err, i, dt, oxVars, fscvVars >>

NextFSCV == SetupFSCV \/ Barrido \/ FinBarrido \/ Corriente \/ Ruido

-----------------------------------------------------------------------------

Init == InitOx \/ InitFSCV

Next == NextOx \/ NextFSCV

Spec == Init /\ [][Next]_vars

-----------------------------------------------------------------------------
(* Vocabulary of the properties *)

EsOx == script = "oxidacion"

EsFSCV == script = "fscv"

\* The Euler loop has started: steps 0..i-1 are done.
Integrando == EsOx /\ pc \in {"integrar", "done"}

\* The scheduler has returned.
Programado == EsOx /\ pc \in {"integrar", "done"}

ConfigValidaOx == T > 0 /\ dt > 0

RECURSIVE SumaHasta(_, _)
\* Sum of the magnitudes of the events at positions 1..p whose index is k.
SumaHasta(k, p) ==
    IF p = 0 THEN 0
    ELSE SumaHasta(k, p - 1)
         + (IF indices_picos[p] = k THEN magnitudes_picos[p] ELSE 0)

SumaMagnitudes(k) == SumaHasta(k, Len(indices_picos))

-----------------------------------------------------------------------------
\* C1: when several stress events floor-map to the same index k, step k adds
\* the magnitude of every one of them to peroxido_hidrogeno[k+1], after the
\* kinetic update: peroxide[k+1] = peroxide[k] + (v - k_decomp*peroxide[k])*dt
\* + the sum of the magnitudes of all events whose index is k.
C1_TodasLasMagnitudesSumadas ==
    Integrando =>
        \A k \in 0..(i - 1) :
            peroxido_hidrogeno[k + 1] =
                peroxido_hidrogeno[k] + d_h2o2(k) * dt + SumaMagnitudes(k)

-----------------------------------------------------------------------------
\* C10: every event the scheduler returned with an index in 0..N is consumed
\* by the integrator: by the end of the run its magnitude has been added by
\* the step of its index (stated on the final state of a run of a valid
\* configuration).
C10_TodoEventoConsumido ==
    (EsOx /\ pc = "done" /\ ConfigValidaOx) =>
        \A p \in 1..Len(indices_picos) :
            indices_picos[p] \in 0..n_pas => p \in aplicados

-----------------------------------------------------------------------------
\* C8: the event indices returned by the scheduler form a non-decreasing
\* sequence of length n_picos, each within 0..N with N = floor(T/dt).
C8_IndicesOrdenadosEnRango ==
    (Programado /\ ConfigValidaOx) =>
        /\ Len(indices_picos) = n_picos
        /\ Len(tiempos_picos) = n_picos
        /\ \A p \in 1..Len(indices_picos) :
               /\ 0 <= indices_picos[p]
               /\ indices_picos[p] <= T \div dt
               /\ indices_picos[p] * dt <= tiempos_picos[p]
               /\ tiempos_picos[p] < (indices_picos[p] + 1) * dt
        /\ \A p \in 1..(Len(indices_picos) - 1) :
               indices_picos[p] <= indices_picos[p + 1]

\* Two events were scheduled at different times, one of them floor-mapped
\* to an index below its time, and the last index N is returned.
C8_Testigo ==
    /\ Programado /\ ConfigValidaOx
    /\ n_picos >= 2
    /\ tiempos_picos[1] < tiempos_picos[2]
    /\ \E p \in 1..n_picos : indices_picos[p] * dt < tiempos_picos[p]
    /\ \E p \in 1..n_picos : indices_picos[p] = T \div dt

-----------------------------------------------------------------------------
\* The pH trajectory has been returned (clipped); likewise the oxygen one.
PhDevuelto == EsOx /\ pc \in {"o2", "picos", "integrar", "done"}

O2Devuelto == EsOx /\ pc \in {"picos", "integrar", "done"}

EnRango(a, lo, hi) == \A k \in DOMAIN a : lo <= a[k] /\ a[k] <= hi

-----------------------------------------------------------------------------
\* C6: with k_decomp = 0 and no stress events, dopamina[k] + quinona[k]
\* equals dopamina[0] + quinona[0] at every index the integration reached.
C6_BalanceDeMasa ==
    (Integrando /\ k_decomp = 0 /\ n_picos = 0) =>
        \A k \in 0..i : dopamina[k] + quinona[k] = dopamina[0] + quinona[0]

\* A finished run without decay or events in which dopamine was oxidised at
\* every step.
C6_Testigo ==
    /\ EsOx /\ pc = "done" /\ k_decomp = 0 /\ n_picos = 0
    /\ n_pas >= 2
    /\ \A k \in 0..(n_pas - 1) : quinona[k + 1] > quinona[k]

-----------------------------------------------------------------------------
\* The hypotheses of C9: non-negative initial concentrations and magnitudes,
\* trajectories in their clamp ranges, k_decomp*dt <= 1, and
\* k_base*dt*oxigeno[k]*10^(ph[k]-7.2) <= 1 at every index k (the rates are
\* in hundredths).
C9_Hipotesis ==
    /\ dopamina[0] >= 0 /\ peroxido_hidrogeno[0] >= 0 /\ quinona[0] >= 0
    /\ \A p \in 1..Len(magnitudes_picos) : magnitudes_picos[p] >= 0
    /\ EnRango(ph, PhMin, PhMax)
    /\ EnRango(oxigeno, O2Min, O2Max)
    /\ k_decomp * dt <= 100
    /\ \A k \in 0..n_pas : k_base * dt * oxigeno[k] * factor_ph(ph[k]) <= 100

\* C9: under those hypotheses, after any number of Euler steps the three
\* concentrations are non-negative at every index reached, dopamine is
\* non-increasing and quinone non-decreasing, without any clamp.
C9_NoNegatividad ==
    (Integrando /\ C9_Hipotesis) =>
        /\ \A k \in 0..i :
               /\ dopamina[k] >= 0
               /\ peroxido_hidrogeno[k] >= 0
               /\ quinona[k] >= 0
        /\ \A k \in 0..(i - 1) :
               /\ dopamina[k + 1] <= dopamina[k]
               /\ quinona[k + 1] >= quinona[k]

\* A finished run under the hypotheses, with decay, an applied event and
\* dopamine strictly consumed.
C9_Testigo ==
    /\ EsOx /\ pc = "done" /\ C9_Hipotesis
    /\ n_pas >= 2 /\ k_decomp > 0 /\ aplicados # {}
    /\ dopamina[n_pas] < dopamina[0]
    /\ \E k \in 0..(n_pas - 1) : peroxido_hidrogeno[k + 1] < peroxido_hidrogeno[k]

\* Outside the hypotheses the rate bound matters: dopamine does go negative
\* (never true if the model could not leave the hypotheses).
DopaminaNegativaAlcanzable ==
    ~ (Integrando /\ \E k \in 0..i : dopamina[k] < 0)

\* The fixed-point representation loses nothing: what the Euler step
\* divides by 100 is a multiple of 100.
AritmeticaExacta ==
    Integrando =>
        \A k \in 0..(n_pas - 1) :
            k <= i => /\ dopamina[k] % 100 = 0
                      /\ peroxido_hidrogeno[k] % 100 = 0

-----------------------------------------------------------------------------
\* A configuration the validation has to reject.
ConfigInvalida ==
    \/ dt <= 0
    \/ EsOx /\ T <= 0
    \/ EsFSCV /\ (time_total <= 0 \/ E_vertex = 0)

\* No simulation step has run: no loop iteration of either script.
SinPasos ==
    /\ i = 0
    /\ \A k \in DOMAIN ph : k > 0 => ph[k] = 0
    /\ oxigeno = << >> /\ indices_picos = << >>
    /\ \A k \in DOMAIN E : E[k] = 0
    /\ j = << >>

\* C2: a run configured with dt <= 0, T <= 0, time_total <= 0 or
\* E_vertex = 0 never completes and never leaves the set-up: it ends in an
\* error state before any simulation step has executed.
C2_ConfigInvalidaRechazada ==
    ConfigInvalida =>
        /\ pc # "done"
        /\ pc = "error" => SinPasos

-----------------------------------------------------------------------------
\* The parameters C3 calls valid: time_total > 0 and dt > 0 dividing
\* time_total/2 (and an E_vertex the configuration allows).
BarridoValido ==
    /\ time_total > 0 /\ dt > 0 /\ E_vertex # 0
    /\ time_total % 2 = 0
    /\ (time_total \div 2) % dt = 0

\* The sweep loop is over.
BarridoHecho == EsFSCV /\ pc \in {"corriente", "done"}

\* Index of the sample at time_total/2.
IndiceMitad == (time_total \div 2) \div dt

\* One sample step of the ramp: |E_vertex - E_start| * dt / half_time, as a
\* numerator over EDen.
PasoDeRampa == Abs(E_vertex - E_start) * 2 * dt

\* C3 as stated: the sample at time_total/2 is exactly E_vertex and the last
\* sample of the waveform is exactly E_start.
C3_VuelveExactoAEStart ==
    (BarridoHecho /\ BarridoValido) =>
        /\ E[IndiceMitad] = E_vertex * EDen
        /\ E[num_points - 1] = E_start * EDen

\* C3 amended: the waveform starts at E_start, moves by exactly one ramp step
\* between adjacent samples (no jump at the turning point), is exactly
\* E_vertex at time_total/2, and its last sample, taken at time_total - dt,
\* is one ramp step short of E_start.
C3_BarridoTriangular ==
    (BarridoHecho /\ BarridoValido) =>
        /\ E[0] = E_start * EDen
        /\ E[IndiceMitad] = E_vertex * EDen
        /\ \A k \in 0..(num_points - 2) : Abs(E[k + 1] - E[k]) = PasoDeRampa
        /\ t[num_points - 1] = time_total - dt
        /\ E[num_points - 1] = E_start * EDen + (E_vertex - E_start) * 2 * dt

\* A finished valid sweep with a real ramp and samples on both branches.
C3_Testigo ==
    /\ EsFSCV /\ pc = "done" /\ BarridoValido
    /\ E_vertex # E_start
    /\ IndiceMitad >= 2
    /\ E[num_points - 1] # E_start * EDen

-----------------------------------------------------------------------------
\* C4 as stated: in a completed run every output sequence has N+1 elements,
\* N = floor(T_total/dt), in both pipelines.
C4_LongitudNMasUno ==
    /\ (EsOx /\ pc = "done" /\ ConfigValidaOx) =>
           \A a \in {dopamina, peroxido_hidrogeno, quinona, ph, oxigeno} :
               DOMAIN a = 0..(T \div dt)
    /\ (EsFSCV /\ pc = "done" /\ time_total > 0 /\ dt > 0) =>
           /\ DOMAIN t = 0..(time_total \div dt)
           /\ DOMAIN E = 0..(time_total \div dt)
           /\ DOMAIN j = 0..(time_total \div dt)

\* T/dt truncated toward zero, written out.
Truncado(a, b) ==
    IF (a >= 0) = (b > 0) THEN Abs(a) \div Abs(b) ELSE -(Abs(a) \div Abs(b))

\* time_total/dt rounded up, written out (for a quotient > 0).
HaciaArriba(a, b) ==
    (Abs(a) \div Abs(b)) + (IF Abs(a) % Abs(b) = 0 THEN 0 ELSE 1)

\* C4 amended: in a completed run the sequences of one pipeline have the
\* same index set.  The reaction pipeline's have N+1 elements, 0..N, with
\* N = T/dt truncated toward zero (the floor when T/dt >= 0).  The FSCV
\* pipeline's have ceil(time_total/dt) elements, the half-open grid
\* 0..ceil(time_total/dt)-1: N, not N+1, whenever dt divides time_total.
C4_Longitudes ==
    /\ (EsOx /\ pc = "done") =>
           /\ n_pas = Truncado(T, dt)
           /\ ConfigValidaOx => n_pas = T \div dt
           /\ \A a \in {dopamina, peroxido_hidrogeno, quinona, ph, oxigeno} :
                  DOMAIN a = 0..Truncado(T, dt)
    /\ (EsFSCV /\ pc = "done") =>
           /\ num_points = HaciaArriba(time_total, dt)
           /\ DOMAIN t = 0..(HaciaArriba(time_total, dt) - 1)
           /\ DOMAIN E = DOMAIN t
           /\ DOMAIN j = DOMAIN t

\* A completed FSCV run whose step divides time_total: N samples.
C4_Testigo ==
    /\ EsFSCV /\ pc = "done" /\ time_total > 0 /\ dt > 0
    /\ time_total % dt = 0
    /\ Length(j) = time_total \div dt
    /\ Length(j) >= 4

-----------------------------------------------------------------------------
\* Scenario A: E_start = -0.4, E_vertex = 1.3, time_total = 0.01, dt = 1e-5.
EscenarioA ==
    EsFSCV /\ E_start = -400 /\ E_vertex = 1300 /\ time_total = 1000 /\ dt = 1

\* C5: in scenario A the waveform and the trace have exactly 1000 samples,
\* the waveform's maximum is exactly 1.3 V, attained at index 500 and
\* nowhere else.
C5_EscenarioA ==
    /\ (EscenarioA /\ BarridoHecho) =>
           /\ num_points = 1000
           /\ Length(t) = 1000 /\ Length(E) = 1000
           /\ E[500] = 1300 * EDen
           /\ \A k \in DOMAIN E : k # 500 => E[k] < E[500]
    /\ (EscenarioA /\ pc = "done") =>
           /\ Length(j) = 1000
           /\ \A k \in DOMAIN j : j[k].eta = E[k] - E0 * EDen

C5_Testigo == EscenarioA /\ pc = "done" /\ E[499] < E[500] /\ E[501] < E[500]

====
